---- MODULE Spec2Model ----
(***************************************************************************)
(* The Log panel of studio-base (panels/Log/index.tsx): topic selection,   *)
(* the filtered message list and the autoscroll controller.                *)
(*                                                                         *)
(* Representation.  A JavaScript string that is searched (message text,    *)
(* node name, search term) is a sequence of one-character strings, so that *)
(* String.prototype.includes can be computed.  Topic names and datatypes,  *)
(* which are only compared, are TLA+ strings.  An optional value is a      *)
(* sequence of length at most one: <<>> is undefined, <<v>> is v.          *)
(***************************************************************************)
EXTENDS Integers, Sequences, FiniteSets, TLC

(* ------------------------------ bounds --------------------------------- *)

\* Model value of historySize (index.tsx:88 asks for 100000).
MaxHistory ==
    2

\* Number of list updates (onPagesUpdated invocations) explored.
MaxUpdates ==
    3

\* Number of "Scroll to bottom" clicks explored.
MaxJumps ==
    1

\* Largest scroll offset of the viewport (content height minus client height).
MaxScrollTop ==
    2

\* Log levels run from 1 to MaxLevel.
MaxLevel ==
    2

(* ------------------------------ inputs --------------------------------- *)

Undefined ==
    <<>>

Some(v) ==
    <<v>>

\* The log payloads the data source may deliver: [level, msg, name].
LogMessages ==
    { [level |-> 1, msg |-> <<"a", "b">>, name |-> Some(<<"n">>)],
      [level |-> 2, msg |-> <<"b">>,      name |-> Some(<<"a">>)],
      [level |-> MaxLevel, msg |-> <<"c">>, name |-> Undefined] }

\* The search-term arrays the filter bar may hand to onFilterChange.
SearchTermChoices ==
    { <<>>, << <<"b", "a">>, <<"a">> >> }

\* Topic catalogs of the data source (name unique per catalog).
Catalogs ==
    { << [name |-> "/a", datatype |-> "std_msgs/String"],
         [name |-> "/b", datatype |-> "rosgraph_msgs/Log"],
         [name |-> "/c", datatype |-> "foxglove.Log"] >>,
      << [name |-> "/a", datatype |-> "std_msgs/String"] >> }

\* Topic names a saved config or the topic menu may carry; "/z" is in no catalog.
TopicChoices ==
    { "/a", "/z" }

(* --------------------------- pure functions ---------------------------- *)

SUPPORTED_DATATYPES ==
    << "rosgraph_msgs/Log", "rcl_interfaces/msg/Log", "ros.rosgraph_msgs.Log",
       "ros.rcl_interfaces.Log", "foxglove.Log" >>

\* Array.prototype.includes
ArrayIncludes(arr, x) ==
    \E i \in 1..Len(arr) : arr[i] = x

\* String.prototype.includes: t occurs in s as a contiguous run.
StringIncludes(s, t) ==
    \E i \in 1..(Len(s) - Len(t) + 1) : SubSeq(s, i, i + Len(t) - 1) = t

\* datatypeByTopic: a Map filled in catalog order, so a later entry of the
\* same name overwrites an earlier one.  Undefined when the name is absent.
datatypeByTopic(tps, name) ==
    LET idx == { i \in 1..Len(tps) : tps[i].name = name }
    IN  IF idx = {} THEN Undefined
        ELSE Some(tps[CHOOSE i \in idx : \A j \in idx : j <= i].datatype)

IsSupported(topic) ==
    ArrayIncludes(SUPPORTED_DATATYPES, topic.datatype)

availableTopics(tps) ==
    SelectSeq(tps, IsSupported)

defaultTopicToRender_LastMatch(tps) ==
    LET av == availableTopics(tps)
    IN  IF Len(av) = 0 THEN Undefined ELSE Some(av[Len(av)].name)

\* availableTopics[0]?.name
defaultTopicToRender(tps) ==
    LET av == availableTopics(tps)
    IN  IF Len(av) = 0 THEN Undefined ELSE Some(av[1].name)

\* a ?? b
Coalesce(a, b) ==
    IF a # Undefined THEN a ELSE b

\* config.topicToRender ?? defaultTopicToRender ?? "/rosout"
topicToRenderOf(cfg, tps) ==
    Coalesce(Coalesce(cfg.topicToRender, defaultTopicToRender(tps)), Some("/rosout"))[1]

PassesFilter_IgnoreLevel(ev, filter) ==
    \/ Len(filter.searchTerms) = 0
    \/ \E k \in 1..Len(filter.searchTerms) :
          \/ StringIncludes(ev.message.msg, filter.searchTerms[k])
          \/ /\ ev.message.name # Undefined
             /\ StringIncludes(ev.message.name[1], filter.searchTerms[k])

\* The predicate of the message filter, one record against one FilterSpec.
PassesFilter(ev, filter) ==
    /\ ev.message.level >= filter.minLogLevel
    /\ \/ Len(filter.searchTerms) = 0
       \/ \E k \in 1..Len(filter.searchTerms) :
             \/ StringIncludes(ev.message.msg, filter.searchTerms[k])
             \/ /\ ev.message.name # Undefined
                /\ StringIncludes(ev.message.name[1], filter.searchTerms[k])

RECURSIVE KeepPassing(_, _)
KeepPassing(events, filter) ==
    IF events = <<>> THEN <<>>
    ELSE IF PassesFilter(Head(events), filter)
         THEN <<Head(events)>> \o KeepPassing(Tail(events), filter)
         ELSE KeepPassing(Tail(events), filter)

filterMessages_DropFirst(events, filter) ==
    LET out == KeepPassing(events, filter)
    IN  IF out = <<>> THEN out ELSE Tail(out)

RECURSIVE filterMessages(_, _)
filterMessages(events, filter) ==
    IF events = <<>> THEN <<>>
    ELSE LET rest == filterMessages(Tail(events), filter)
         IN  IF PassesFilter(Head(events), filter)
             THEN <<Head(events)>> \o rest
             ELSE rest

\* filterMessages(msgEvents, { minLogLevel, searchTerms })
computeFiltered(events, minLogLevel, searchTerms) ==
    filterMessages(events, [minLogLevel |-> minLogLevel, searchTerms |-> searchTerms])

\* const { [topicToRender]: msgEvents = [] } = useMessagesByTopic(...)
msgEventsOf(byTopic, topic) ==
    IF topic \in DOMAIN byTopic THEN byTopic[topic] ELSE <<>>

\* The names the seenNodeNames memo adds for one msgEvents array.
NamesOf(events) ==
    { events[i].message.name[1] :
        i \in { j \in 1..Len(events) : events[j].message.name # Undefined } }

seenNodeNames_Rebuild(cache, events) ==
    NamesOf(events)

\* The seenNodeNames memo: every defined name of msgEvents is added to the
\* one Set kept in seenNodeNamesCache, which is returned.
seenNodeNames(cache, events) ==
    cache \cup NamesOf(events)

normalizedLogMessage(datatype, message) ==
    [datatype |-> datatype, level |-> message.level,
     message |-> message.msg, name |-> message.name]

onRenderCell_NoDatatypeCheck(item, tps) ==
    Some(normalizedLogMessage(datatypeByTopic(tps, item.topic), item.message))

\* onRenderCell: nothing for an item whose topic has no datatype, else the
\* LogMessage element of the normalized record.
onRenderCell(item, tps) ==
    LET datatype == datatypeByTopic(tps, item.topic)
    IN  IF datatype = Undefined \/ datatype = Some("")
        THEN Undefined
        ELSE Some(normalizedLogMessage(datatype[1], item.message))

renderCells(items, tps) ==
    [i \in 1..Len(items) |-> onRenderCell(items[i], tps)]

showScrollButton_Inverted(scrolled) ==
    ~scrolled

\* {hasUserScrolled && (<IconButton title="Scroll to bottom" .../>)}
showScrollButton(scrolled) ==
    scrolled

\* The capped history of the subscription: the newest MaxHistory events.
AppendCapped(events, ev) ==
    LET all == Append(events, ev)
    IN  IF Len(all) > MaxHistory THEN SubSeq(all, Len(all) - MaxHistory + 1, Len(all))
        ELSE all

UseMemo_FirstDepOnly(oldDeps, newDeps, oldValue, newValue) ==
    IF oldDeps[1] # newDeps[1] THEN newValue ELSE oldValue

\* useMemo: the cached value unless a dependency changed.
UseMemo(oldDeps, newDeps, oldValue, newValue) ==
    IF oldDeps # newDeps THEN newValue ELSE oldValue

\* defaultConfig
defaultConfig ==
    [searchTerms |-> <<>>, minLogLevel |-> 1, topicToRender |-> Undefined]

NoMessages ==
    [t \in {} |-> <<>>]

(* ------------------------------- state --------------------------------- *)

VARIABLES
    topics,              \* useDataSourceInfo().topics
    config,              \* the panel's Config prop (last value given to saveConfig)
    messagesByTopic,     \* useMessagesByTopic({topics: [topicToRender]})
    seenNodeNamesCache,  \* seenNodeNamesCache.current
    filteredMessages,    \* the filteredMessages memo, the List's items
    cells,               \* what onRenderCell returned for each item
    buttonShown,         \* whether the "Scroll to bottom" IconButton is rendered
    hasUserScrolled,     \* useState(false)
    scrollByUpdate,      \* scrollByUpdate.current
    divRef,              \* divRef.current: "null" or "div"
    listening,           \* whether the scroll listener is registered on the div
    unmounted,           \* whether React has unmounted the panel
    scrollTop,           \* div.scrollTop
    scrollMax,           \* the offset of the bottom: scrollHeight - clientHeight
    pendingScroll,       \* causes of the scroll event the browser has queued
    nPagesUpdated,       \* invocations of onPagesUpdated
    nScrollToBottom,     \* invocations of scrollToBottom()
    nJumps,              \* invocations of scrollToBottomAction
    userScrolled,        \* whether the user has ever moved the viewport
    saveConfigCall       \* the saveConfig call of the last step: handler and input

vars ==
    << topics, config, messagesByTopic, seenNodeNamesCache, filteredMessages,
       cells, buttonShown, hasUserScrolled, scrollByUpdate, divRef, listening,
       unmounted,
       scrollTop, scrollMax, pendingScroll, nPagesUpdated, nScrollToBottom,
       nJumps, userScrolled, saveConfigCall >>

topicToRender ==
    topicToRenderOf(config, topics)

msgEvents ==
    msgEventsOf(messagesByTopic, topicToRender)

Init ==
    /\ topics \in Catalogs
    /\ config = defaultConfig
    /\ messagesByTopic = NoMessages
    /\ seenNodeNamesCache = {}
    /\ filteredMessages = <<>>
    /\ cells = <<>>
    /\ buttonShown = FALSE
    /\ hasUserScrolled = FALSE
    /\ scrollByUpdate = FALSE
    /\ divRef = "null"
    /\ listening = FALSE
    /\ unmounted = FALSE
    /\ scrollTop = 0
    /\ scrollMax = 0
    /\ pendingScroll = {}
    /\ nPagesUpdated = 0
    /\ nScrollToBottom = 0
    /\ nJumps = 0
    /\ userScrolled = FALSE
    /\ saveConfigCall = Undefined

(* ------------------------------ rendering ------------------------------ *)

Render_ResetOnTopicChange(tps, cfg, byTopic, scrolled) ==
    LET oldEvents == msgEvents
        newEvents == msgEventsOf(byTopic, topicToRenderOf(cfg, tps))
    IN  /\ seenNodeNamesCache' =
               IF topicToRenderOf(cfg, tps) # topicToRender
               THEN NamesOf(newEvents)
               ELSE seenNodeNames(seenNodeNamesCache, newEvents)
        /\ filteredMessages' =
               UseMemo(<<oldEvents, config.minLogLevel, config.searchTerms>>,
                       <<newEvents, cfg.minLogLevel, cfg.searchTerms>>,
                       filteredMessages,
                       computeFiltered(newEvents, cfg.minLogLevel, cfg.searchTerms))
        /\ cells' = renderCells(filteredMessages', tps)
        /\ buttonShown' = showScrollButton(scrolled)

\* One render of LogPanel with the given catalog, props and state: the
\* memos, the cells of the list and the button.
Render(tps, cfg, byTopic, scrolled) ==
    LET oldEvents == msgEvents
        newEvents == msgEventsOf(byTopic, topicToRenderOf(cfg, tps))
    IN  /\ seenNodeNamesCache' = seenNodeNames(seenNodeNamesCache, newEvents)
        /\ filteredMessages' =
               UseMemo(<<oldEvents, config.minLogLevel, config.searchTerms>>,
                       <<newEvents, cfg.minLogLevel, cfg.searchTerms>>,
                       filteredMessages,
                       computeFiltered(newEvents, cfg.minLogLevel, cfg.searchTerms))
        /\ cells' = renderCells(filteredMessages', tps)
        /\ buttonShown' = showScrollButton(scrolled)

(* ------------------------- autoscroll controller ----------------------- *)

\* What a scroll operation reads and writes: the viewport's offset, the
\* scroll event the browser has queued, the one-shot flag, the call counts.
ScrollState ==
    [scrollTop |-> scrollTop, pendingScroll |-> pendingScroll,
     scrollByUpdate |-> scrollByUpdate, nScrollToBottom |-> nScrollToBottom,
     nPagesUpdated |-> nPagesUpdated]

\* scrollToBottom(): div.scrollTop = div.scrollHeight, which the browser
\* clamps to the bottom offset; a change of offset queues a scroll event.
scrollToBottom(s, bottom) ==
    LET called == [s EXCEPT !.nScrollToBottom = @ + 1]
    IN  IF divRef = "null"
        THEN called
        ELSE [called EXCEPT
                 !.scrollTop = bottom,
                 !.pendingScroll = IF bottom # s.scrollTop
                                   THEN @ \cup {"programmatic"}
                                   ELSE @]

onPagesUpdated_AlwaysScroll(s, scrolled, bottom) ==
    scrollToBottom([s EXCEPT !.nPagesUpdated = @ + 1, !.scrollByUpdate = TRUE],
                   bottom)

\* onPagesUpdated, called by the List after it rendered a new items array;
\* scrolled is the hasUserScrolled of the render the callback belongs to.
onPagesUpdated(s, scrolled, bottom) ==
    LET called == [s EXCEPT !.nPagesUpdated = @ + 1]
    IN  IF ~scrolled
        THEN scrollToBottom([called EXCEPT !.scrollByUpdate = TRUE], bottom)
        ELSE called

\* The bottom offsets the viewport may have once a list of newLen rows has
\* replaced one of oldLen rows.  A row adds at most one step of offset, so
\* the bottom never exceeds the number of rows: an empty list has bottom 0,
\* a longer list has the same bottom or a larger one, a shorter list the
\* same or a smaller one.
BottomsAfterLayout(oldLen, newLen) ==
    { h \in 0..MaxScrollTop :
         /\ h <= newLen
         /\ IF newLen >= oldLen
            THEN h >= scrollMax /\ h - scrollMax <= newLen - oldLen
            ELSE h <= scrollMax /\ scrollMax - h <= oldLen - newLen }

\* The browser lays the new content out: an offset beyond the new bottom is
\* clamped to it, and the change of offset queues a scroll event.
Layout(s, bottom) ==
    IF s.scrollTop > bottom
    THEN [s EXCEPT !.scrollTop = bottom, !.pendingScroll = @ \cup {"layout"}]
    ELSE s

Scrolled(s) ==
    /\ scrollTop' = s.scrollTop
    /\ pendingScroll' = s.pendingScroll
    /\ scrollByUpdate' = s.scrollByUpdate
    /\ nScrollToBottom' = s.nScrollToBottom
    /\ nPagesUpdated' = s.nPagesUpdated

\* Whether the render hands the List an items array it has not seen.  The
\* filteredMessages memo (:108-111) returns a new array when msgEvents or
\* searchTerms is a new array or minLogLevel another number; renewed says
\* that the step itself brought one (an arrival, a filter change, a move of
\* the subscription), and a topic without a buffer entry gets the = []
\* default of :86, which is a new array at every render.
ItemsRenewed(tps, cfg, byTopic, renewed) ==
    renewed \/ topicToRenderOf(cfg, tps) \notin DOMAIN byTopic

\* The List's part of a commit: with a new items array it lays the rows out
\* and calls onPagesUpdated; with the array it already has, nothing.
\* s is the scroll state the handler left, scrolled the hasUserScrolled of
\* the render.  To be used after Render, whose list it measures.
ListCommit(s, scrolled, itemsRenewed) ==
    IF itemsRenewed
    THEN /\ s.nPagesUpdated < MaxUpdates
         /\ \E bottom \in BottomsAfterLayout(Len(filteredMessages),
                                             Len(filteredMessages')) :
               /\ scrollMax' = bottom
               /\ Scrolled(onPagesUpdated(Layout(s, bottom), scrolled, bottom))
    ELSE /\ scrollMax' = scrollMax
         /\ Scrolled(s)

\* A render caused by new props or new hook values, and the List's commit.
\* The panel renders again, and the List calls back, only between the first
\* commit, which attaches the Box's ref, and the unmount, which detaches it.
UpdateList(tps, cfg, byTopic, call, renewed) ==
    /\ divRef = "div"
    /\ topics' = tps
    /\ config' = cfg
    /\ saveConfigCall' = call
    /\ messagesByTopic' = byTopic
    /\ Render(tps, cfg, byTopic, hasUserScrolled)
    /\ ListCommit(ScrollState, hasUserScrolled,
                  ItemsRenewed(tps, cfg, byTopic, renewed))
    /\ UNCHANGED <<hasUserScrolled, divRef, listening, unmounted, nJumps, userScrolled>>

(* ------------------------------- actions ------------------------------- *)

\* The first commit: the Box's ref is attached, then the layout effect
\* registers the scroll listener on it.  Nothing of the panel can be called
\* before it: the handlers and the List exist only once it has happened.
Mount ==
    /\ ~unmounted
    /\ divRef = "null"
    /\ divRef' = "div"
    /\ listening' = (divRef' # "null")
    /\ UNCHANGED << topics, config, messagesByTopic, seenNodeNamesCache,
                    filteredMessages, cells, buttonShown, hasUserScrolled,
                    scrollByUpdate, scrollTop, scrollMax, pendingScroll,
                    unmounted, nPagesUpdated, nScrollToBottom, nJumps,
                    userScrolled >>
    /\ saveConfigCall' = Undefined

\* The panel unmounts: React runs the cleanup the layout effect returned,
\* which removes the scroll listener, and detaches the Box's ref.  The
\* unmounted panel is rendered no more and its handlers are called no more.
Unmount ==
    /\ ~unmounted
    /\ divRef = "div"
    /\ unmounted' = TRUE
    /\ listening' = FALSE
    /\ divRef' = "null"
    /\ UNCHANGED << topics, config, messagesByTopic, seenNodeNamesCache,
                    filteredMessages, cells, buttonShown, hasUserScrolled,
                    scrollByUpdate, scrollTop, scrollMax, pendingScroll,
                    nPagesUpdated, nScrollToBottom, nJumps, userScrolled >>
    /\ saveConfigCall' = Undefined

\* The subscription delivers one more message on the selected topic: the
\* buffer is a new array.
NewMessage(m) ==
    UpdateList(topics, config,
               [t \in {topicToRender} |->
                   AppendCapped(msgEvents, [topic |-> topicToRender, message |-> m])],
               Undefined, TRUE)

onFilterChange_DropTopic(filter) ==
    UpdateList(topics,
               [minLogLevel |-> filter.minLogLevel,
                searchTerms |-> filter.searchTerms,
                topicToRender |-> Undefined],
               IF topicToRenderOf(defaultConfig, topics) = topicToRender
               THEN messagesByTopic ELSE NoMessages,
               Some([handler |-> "onFilterChange", input |-> Some(filter)]),
               TRUE)

\* onFilterChange: saveConfig({ ...config, minLogLevel, searchTerms }); the
\* filter's searchTerms is an array the memo has not seen.
onFilterChange(filter) ==
    UpdateList(topics,
               [config EXCEPT !.minLogLevel = filter.minLogLevel,
                              !.searchTerms = filter.searchTerms],
               messagesByTopic,
               Some([handler |-> "onFilterChange", input |-> Some(filter)]),
               TRUE)

\* TopicToRenderMenu's onChange: saveConfig({ ...config, topicToRender }).
\* When the rendered topic changes, the subscription moves to it and its
\* history starts empty; when the rendered topic is chosen again, msgEvents,
\* minLogLevel and searchTerms are what they were.
onTopicChange(newTopicToRender) ==
    LET cfg == [config EXCEPT !.topicToRender = Some(newTopicToRender)]
        moved == topicToRenderOf(cfg, topics) # topicToRender
    IN  UpdateList(topics, cfg,
                   IF moved THEN NoMessages ELSE messagesByTopic,
                   Some([handler |-> "onTopicChange",
                         input |-> Some(newTopicToRender)]),
                   moved)

\* The data source publishes another topic catalog: useDataSourceInfo()
\* returns the new array and the panel renders again.  No handler runs and
\* saveConfig is not called.  When the catalog changes the topic that is
\* rendered, the subscription moves to that topic, whose history starts
\* empty; otherwise msgEvents is what it was and only the cells see the new
\* datatypes.
TopicsChange(newTopics) ==
    LET moved == topicToRenderOf(config, newTopics) # topicToRender
    IN  /\ newTopics # topics
        /\ UpdateList(newTopics, config,
                      IF moved THEN NoMessages ELSE messagesByTopic,
                      Undefined, moved)

\* The user moves the viewport (wheel, drag, keys); the browser queues a
\* scroll event, one per frame however many causes it has.
UserScroll(offset) ==
    /\ (divRef = "div" \/ unmounted)
    /\ offset # scrollTop
    /\ scrollTop' = offset
    /\ pendingScroll' = pendingScroll \cup {"user"}
    /\ userScrolled' = TRUE
    /\ UNCHANGED << topics, config, messagesByTopic, seenNodeNamesCache,
                    filteredMessages, cells, buttonShown, hasUserScrolled,
                    scrollByUpdate, divRef, listening, unmounted, scrollMax,
                    nPagesUpdated, nScrollToBottom, nJumps >>
    /\ saveConfigCall' = Undefined

listener_IgnoreFlag ==
    /\ listening
    /\ pendingScroll # {}
    /\ hasUserScrolled' = TRUE
    /\ Render(topics, config, messagesByTopic, hasUserScrolled')
    /\ ListCommit([ScrollState EXCEPT !.pendingScroll = {},
                                      !.scrollByUpdate = FALSE],
                  hasUserScrolled',
                  /\ hasUserScrolled' # hasUserScrolled
                  /\ ItemsRenewed(topics, config, messagesByTopic, FALSE))
    /\ UNCHANGED << topics, config, messagesByTopic, divRef, listening,
                    unmounted, nJumps, userScrolled >>
    /\ saveConfigCall' = Undefined

\* The browser dispatches the queued scroll event on a div that has no
\* listener: nothing of the panel runs.
ScrollEventUnheard ==
    /\ ~listening
    /\ pendingScroll # {}
    /\ pendingScroll' = {}
    /\ UNCHANGED << topics, config, messagesByTopic, seenNodeNamesCache,
                    filteredMessages, cells, buttonShown, hasUserScrolled,
                    scrollByUpdate, divRef, listening, unmounted, scrollTop,
                    scrollMax, nPagesUpdated, nScrollToBottom, nJumps,
                    userScrolled >>
    /\ saveConfigCall' = Undefined

\* The browser delivers the queued scroll event to the listener.  Only a
\* setHasUserScrolled that changes the state makes the panel render again.
listener ==
    /\ listening
    /\ pendingScroll # {}
    /\ hasUserScrolled' = IF ~scrollByUpdate THEN TRUE ELSE hasUserScrolled
    /\ Render(topics, config, messagesByTopic, hasUserScrolled')
    /\ ListCommit([ScrollState EXCEPT !.pendingScroll = {},
                                      !.scrollByUpdate = FALSE],
                  hasUserScrolled',
                  /\ hasUserScrolled' # hasUserScrolled
                  /\ ItemsRenewed(topics, config, messagesByTopic, FALSE))
    /\ UNCHANGED << topics, config, messagesByTopic, divRef, listening,
                    unmounted, nJumps, userScrolled >>
    /\ saveConfigCall' = Undefined

\* A click on the "Scroll to bottom" button, and the render that
\* setHasUserScrolled(false) causes.
scrollToBottomAction ==
    /\ ~unmounted
    /\ buttonShown
    /\ nJumps < MaxJumps
    /\ nJumps' = nJumps + 1
    /\ hasUserScrolled' = FALSE
    /\ Render(topics, config, messagesByTopic, hasUserScrolled')
    /\ ListCommit(scrollToBottom([ScrollState EXCEPT !.scrollByUpdate = TRUE],
                                 scrollMax),
                  hasUserScrolled',
                  /\ hasUserScrolled' # hasUserScrolled
                  /\ ItemsRenewed(topics, config, messagesByTopic, FALSE))
    /\ UNCHANGED << topics, config, messagesByTopic, divRef, listening,
                    unmounted, userScrolled >>
    /\ saveConfigCall' = Undefined

FilterChoices ==
    [minLogLevel : 1..MaxLevel, searchTerms : SearchTermChoices]

Next ==
    \/ Mount
    \/ Unmount
    \/ \E c \in Catalogs : TopicsChange(c)
    \/ \E m \in LogMessages : NewMessage(m)
    \/ \E f \in FilterChoices : onFilterChange(f)
    \/ \E t \in TopicChoices : onTopicChange(t)
    \/ \E offset \in 0..scrollMax : UserScroll(offset)
    \/ listener
    \/ ScrollEventUnheard
    \/ scrollToBottomAction

Spec ==
    Init /\ [][Next]_vars

TypeOK ==
    /\ hasUserScrolled \in BOOLEAN
    /\ scrollByUpdate \in BOOLEAN
    /\ scrollTop \in 0..scrollMax
    /\ scrollMax \in 0..MaxScrollTop
    /\ pendingScroll \subseteq {"programmatic", "user", "layout"}
    /\ scrollMax <= Len(filteredMessages)
    /\ Len(msgEvents) <= MaxHistory

(* ------------------------------- claims -------------------------------- *)

FilterSpec ==
    [minLogLevel |-> config.minLogLevel, searchTerms |-> config.searchTerms]

\* t = s[i..j] for some i, j: substring containment stated by decomposition.
Contains(s, t) ==
    \E pre \in 0..Len(s) : \E n \in 0..(Len(s) - pre) :
        /\ n = Len(t)
        /\ \A k \in 1..n : s[pre + k] = t[k]

\* The level/search predicate of the message filter, as the specification words it.
Satisfies(r, F) ==
    /\ r.message.level >= F.minLogLevel
    /\ \/ F.searchTerms = <<>>
       \/ \E k \in DOMAIN F.searchTerms :
             \/ Contains(r.message.msg, F.searchTerms[k])
             \/ \E nm \in {r.message.name[i] : i \in DOMAIN r.message.name} :
                   Contains(nm, F.searchTerms[k])

\* out is R restricted, in order, to exactly the positions whose record satisfies F.
IsExactSubsequence(out, R, F) ==
    \E f \in [1..Len(out) -> 1..Len(R)] :
        /\ \A a, b \in 1..Len(out) : a < b => f[a] < f[b]
        /\ \A a \in 1..Len(out) : out[a] = R[f[a]]
        /\ { f[a] : a \in 1..Len(out) } = { i \in 1..Len(R) : Satisfies(R[i], F) }

\* C1: the filtered list is an order-preserving subsequence of the history
\* buffer holding exactly the records with level >= minLogLevel that match a
\* search term in message or name (or any record when there are no terms).
C1_FilterExactSubsequence ==
    IsExactSubsequence(
        computeFiltered(msgEvents, config.minLogLevel, config.searchTerms),
        msgEvents, FilterSpec)

\* A full buffer of which the filter, with search terms set, keeps a part.
C1_Witness ==
    /\ Len(msgEvents) = MaxHistory
    /\ config.searchTerms # <<>>
    /\ config.minLogLevel > 1
    /\ Len(computeFiltered(msgEvents, config.minLogLevel, config.searchTerms))
          \in 1..(MaxHistory - 1)

SupportedSet ==
    { "rosgraph_msgs/Log", "rcl_interfaces/msg/Log", "ros.rosgraph_msgs.Log",
      "ros.rcl_interfaces.Log", "foxglove.Log" }

\* C2: the selected topic is the explicit choice when there is one, else the
\* name of the first catalog topic with an allowed datatype, else "/rosout".
C2_SelectedTopic ==
    LET allowed == { i \in 1..Len(topics) : topics[i].datatype \in SupportedSet }
        first   == CHOOSE i \in allowed : \A j \in allowed : i <= j
    IN  topicToRender =
            IF config.topicToRender # Undefined THEN config.topicToRender[1]
            ELSE IF allowed # {} THEN topics[first].name
            ELSE "/rosout"

\* The user chose "/a", a catalog topic of a datatype that is not allowed,
\* while two later topics are allowed: the explicit choice wins.
C2_Witness ==
    /\ config.topicToRender = Some("/a")
    /\ Len(topics) >= 3
    /\ topics[1] = [name |-> "/a", datatype |-> "std_msgs/String"]
    /\ topics[2].datatype \in SupportedSet
    /\ topics[3].datatype \in SupportedSet
    /\ topicToRender = "/a"
    /\ nPagesUpdated >= 1

\* C3: as long as the user has not scrolled, the controller is Following and
\* every list update made exactly one programmatic scroll-to-bottom call.
C3_FollowingScrollsPerArrival ==
    ~userScrolled => /\ ~hasUserScrolled
                     /\ nScrollToBottom = nPagesUpdated

\* Three arrivals, three calls, their scroll events delivered, still Following.
C3_Witness ==
    /\ ~userScrolled
    /\ nPagesUpdated = 3
    /\ nScrollToBottom = 3
    /\ scrollTop = 2
    /\ pendingScroll = {}
    /\ ~scrollByUpdate
    /\ ~hasUserScrolled

\* A step of the scroll listener: the queued event is delivered to it.
ListenerStep ==
    listening /\ pendingScroll # {} /\ pendingScroll' = {}

\* C4: every scroll event with no programmatic cause that is delivered while
\* the controller is Following moves it to Paused.
C4_ManualScrollPauses ==
    [][(ListenerStep /\ pendingScroll = {"user"} /\ ~hasUserScrolled)
          => hasUserScrolled']_vars

\* A step that invoked onPagesUpdated.
PagesUpdatedStep ==
    nPagesUpdated' = nPagesUpdated + 1

\* A step in which the subscription delivered a message.
ArrivalStep ==
    /\ messagesByTopic' # messagesByTopic
    /\ DOMAIN messagesByTopic' # {}

\* The message that arrived passes the filter: new visible content.
ArrivedVisible ==
    computeFiltered(<<msgEvents'[Len(msgEvents')]>>,
                    config'.minLogLevel, config'.searchTerms) # <<>>

\* C5: while Paused no arrival makes a programmatic scroll or ends the
\* pause, and an arrival of new visible content leaves the scroll offset
\* and the queued scroll event as they were, the List calling back or not.
C5_PausedSuppressesAutoscroll ==
    [][(hasUserScrolled /\ ArrivalStep)
          => /\ PagesUpdatedStep
             /\ nScrollToBottom' = nScrollToBottom
             /\ hasUserScrolled'
             /\ ArrivedVisible => /\ scrollTop' = scrollTop
                                  /\ pendingScroll' = pendingScroll]_vars

\* Paused, away from the bottom, after a list update that arrived while Paused.
C5_Witness ==
    /\ hasUserScrolled
    /\ msgEvents # <<>>
    /\ nPagesUpdated > nScrollToBottom - nJumps
    /\ scrollTop < scrollMax

\* C6: hasUserScrolled goes from true to false only in scrollToBottomAction;
\* that action makes hasUserScrolled false with exactly one scroll-to-bottom
\* call; and a delivered scroll event with a programmatic cause never changes
\* hasUserScrolled.
C6_OnlyJumpResumes ==
    [][/\ (hasUserScrolled /\ ~hasUserScrolled') => nJumps' = nJumps + 1
       /\ (nJumps' = nJumps + 1)
             => (~hasUserScrolled' /\ nScrollToBottom' = nScrollToBottom + 1)
       /\ (ListenerStep /\ "programmatic" \in pendingScroll)
             => hasUserScrolled' = hasUserScrolled]_vars

\* A step that invoked scrollToBottom().
ScrollToBottomStep ==
    nScrollToBottom' = nScrollToBottom + 1

\* C7: a scroll operation on an unattached viewport changes neither the
\* scroll offset nor the ScrollState (hasUserScrolled, scrollByUpdate).
C7_UnattachedScrollIsNoOp ==
    [][(divRef = "null" /\ ScrollToBottomStep)
          => /\ scrollTop' = scrollTop
             /\ pendingScroll' = pendingScroll
             /\ hasUserScrolled' = hasUserScrolled
             /\ scrollByUpdate' = scrollByUpdate]_vars

\* Every scroll operation of the panel runs while the viewport is attached:
\* the case C7 speaks of, scrollToBottom() reading a null divRef.current, is
\* taken by no step, so C7_UnattachedScrollIsNoOp holds without saying
\* anything about lines 131-134, 141 and 184.
ScrollOperationsAttached ==
    [][ScrollToBottomStep => divRef = "div"]_vars

\* C8: the "Scroll to bottom" button is rendered exactly when the controller
\* is Paused.
C8_ButtonIffPaused ==
    buttonShown <=> hasUserScrolled

\* The button is hidden again after a jump.
C8_Witness ==
    /\ nJumps >= 1
    /\ ~buttonShown
    /\ userScrolled

\* C9: filtering the filtered list again with the same FilterSpec changes nothing.
C9_FilterIdempotent ==
    LET once == computeFiltered(msgEvents, config.minLogLevel, config.searchTerms)
    IN  computeFiltered(once, config.minLogLevel, config.searchTerms) = once

\* Two records pass the filter and it is not the trivial one.
C9_Witness ==
    /\ Len(computeFiltered(msgEvents, config.minLogLevel, config.searchTerms)) >= 2
    /\ config.searchTerms # <<>>

\* C10: an item whose topic has no datatype in the catalog renders as nothing
\* and stays in the list; every other item renders as its normalized record.
C10_UnknownDatatypeDropped ==
    /\ Len(cells) = Len(filteredMessages)
    /\ \A i \in 1..Len(filteredMessages) :
          LET item == filteredMessages[i]
              known == { k \in 1..Len(topics) : topics[k].name = item.topic }
          IN  /\ known = {} => cells[i] = Undefined
              /\ known # {} => cells[i] # Undefined
    /\ (config.topicToRender # Undefined
          /\ \A k \in 1..Len(topics) : topics[k].name # config.topicToRender[1])
       => \A i \in 1..Len(cells) : cells[i] = Undefined

\* Records of the stale explicit topic "/z" are in the list and render as nothing.
C10_Witness ==
    /\ config.topicToRender = Some("/z")
    /\ Len(filteredMessages) = MaxHistory
    /\ \A i \in 1..Len(cells) : cells[i] = Undefined

\* C11: every saveConfig call writes a complete Config that changes only the
\* fields its handler targets (the filter handler: minLogLevel and
\* searchTerms; the topic handler: topicToRender); a step without such a call,
\* in particular a record arrival or a scroll event, leaves the Config as it is.
C11_ConfigWrittenWhole ==
    [][/\ saveConfigCall' # Undefined =>
             LET call == saveConfigCall'[1]
             IN  /\ DOMAIN config' = {"searchTerms", "minLogLevel", "topicToRender"}
                 /\ call.handler = "onFilterChange" =>
                       /\ config'.minLogLevel = call.input[1].minLogLevel
                       /\ config'.searchTerms = call.input[1].searchTerms
                       /\ config'.topicToRender = config.topicToRender
                 /\ call.handler = "onTopicChange" =>
                       /\ config'.topicToRender = call.input
                       /\ config'.minLogLevel = config.minLogLevel
                       /\ config'.searchTerms = config.searchTerms
       /\ saveConfigCall' = Undefined => config' = config
       /\ (ArrivalStep \/ ListenerStep) => saveConfigCall' = Undefined]_vars

\* A filter change made after a topic was chosen: the chosen topic is kept.
C11_Witness ==
    /\ saveConfigCall # Undefined
    /\ saveConfigCall[1].handler = "onFilterChange"
    /\ config.topicToRender = Some("/z")
    /\ config.searchTerms # <<>>
    /\ config.minLogLevel > 1

\* C12: no step removes a name from seenNodeNamesCache, after each arrival
\* the set holds every defined name of the current buffer, and a step that
\* adds to the set adds only names of records of the current buffer.
C12_SeenNamesGrow ==
    [][/\ seenNodeNamesCache \subseteq seenNodeNamesCache'
       /\ ArrivalStep => NamesOf(msgEvents') \subseteq seenNodeNamesCache'
       /\ seenNodeNamesCache' # seenNodeNamesCache
             => (seenNodeNamesCache' \ seenNodeNamesCache) \subseteq NamesOf(msgEvents')]_vars

\* With the topic never changed, the buffer is full of records that carry no
\* name, and the set still holds a name: its record has been evicted.
C12_Witness ==
    /\ config.topicToRender = Undefined
    /\ Len(msgEvents) = MaxHistory
    /\ NamesOf(msgEvents) = {}
    /\ seenNodeNamesCache # {}

\* A step that changed the selected topic: the catalog or the explicit choice
\* changed, and with it the topic that is rendered.
TopicChangeStep ==
    /\ (config'.topicToRender # config.topicToRender \/ topics' # topics)
    /\ topicToRender' # topicToRender

\* C13 as claimed: right after a change of the selected topic the set holds
\* only names of records of the newly selected topic.
C13_SeenNamesResetOnTopicChange ==
    [][TopicChangeStep
          => seenNodeNamesCache' \subseteq NamesOf(msgEvents')]_vars

\* C13 as amended: a change of the selected topic removes nothing from the
\* set; it holds what it held before plus the names of the records of the
\* newly selected topic.
C13_SeenNamesKeptOnTopicChange ==
    [][TopicChangeStep
          => seenNodeNamesCache' = seenNodeNamesCache \cup NamesOf(msgEvents')]_vars

\* Just after a change to topic "/z", which has no records yet, the set holds
\* names seen on the previous topic.
C13_Witness ==
    /\ saveConfigCall # Undefined
    /\ saveConfigCall[1].handler = "onTopicChange"
    /\ config.topicToRender = Some("/z")
    /\ msgEvents = <<>>
    /\ seenNodeNamesCache # {}

\* C14: the list handed to the renderer is the filter of the selected topic's
\* buffer under the current minLogLevel and searchTerms, and is empty when the
\* selected topic has no buffer entry.
C14_VisibleListCurrent ==
    /\ filteredMessages =
          computeFiltered(msgEvents, config.minLogLevel, config.searchTerms)
    /\ topicToRender \notin DOMAIN messagesByTopic => filteredMessages = <<>>

\* A filter change was the last step, on a chosen topic with records, and the
\* list shows a proper, non-empty part of the buffer.
C14_Witness ==
    /\ saveConfigCall # Undefined
    /\ saveConfigCall[1].handler = "onFilterChange"
    /\ Len(msgEvents) = MaxHistory
    /\ Len(filteredMessages) \in 1..(MaxHistory - 1)

\* C15: scrollByUpdate is true only while a scroll event with a programmatic
\* cause is waiting to be delivered.
C15_FlagOnlyWhilePending ==
    scrollByUpdate => "programmatic" \in pendingScroll

====
